---- MODULE Spec2Model ----
(***************************************************************************)
(* Warehouse & delivery dashboard: the team filter and the insight engine *)
(* (utils.py), the metric aggregation functions (data_processor.py), the   *)
(* database collaborator (database.py) and the runs of the dashboard       *)
(* script (app.py), modelled over a pandas-like dataset.  A dataset is a   *)
(* record [cols, rows]: the set of column names and the sequence of rows,  *)
(* each row a function from column name to a tagged cell value             *)
(* [k |-> kind, v |-> payload].                                            *)
(***************************************************************************)
EXTENDS Integers, Sequences, FiniteSets, TLC

VARIABLES df, op, preset, arg, ret, fresh, session_state, run

vars == <<df, op, preset, arg, ret, fresh, session_state, run>>

(***************************************************************************)
(* Bounds of the model.                                                    *)
(***************************************************************************)
MaxRows == 2

(***************************************************************************)
(* Cell values.  none = Python None in an object column, nan = float NaN,  *)
(* nat = pandas NaT, num = a number, str = a string (tuple of characters), *)
(* bool = a native boolean, ts = a timestamp (hours since the epoch of the *)
(* model, 2024-01-01 00:00).                                               *)
(***************************************************************************)
None == [k |-> "none", v |-> 0]
NaN == [k |-> "nan", v |-> 0]
NaT == [k |-> "nat", v |-> 0]
Num(n) == [k |-> "num", v |-> n]
Str(s) == [k |-> "str", v |-> s]
Bool(b) == [k |-> "bool", v |-> b]
Ts(h) == [k |-> "ts", v |-> h]

IsNull(x) == x.k \in {"none", "nan", "nat"}

(***************************************************************************)
(* Characters in ASCII order; Ord gives the position, Lower what           *)
(* str.lower() / re.IGNORECASE do to one character.                        *)
(***************************************************************************)
Alphabet ==
  <<" ", "#", "-", "0", "1", "2", "3", "4", "5", "6", "7", "8", "9",
    "A", "B", "C", "D", "E", "F", "G", "H", "I", "J", "K", "L", "M",
    "N", "O", "P", "Q", "R", "S", "T", "U", "V", "W", "X", "Y", "Z",
    "a", "b", "c", "d", "e", "f", "g", "h", "i", "j", "k", "l", "m",
    "n", "o", "p", "q", "r", "s", "t", "u", "v", "w", "x", "y", "z">>

Chars == {Alphabet[i] : i \in 1..Len(Alphabet)}

OrdOf == [c \in Chars |-> CHOOSE i \in 1..Len(Alphabet) : Alphabet[i] = c]

Ord(c) == OrdOf[c]

LowerOf ==
  [c \in Chars |-> IF Ord(c) \in 14..39 THEN Alphabet[Ord(c) + 26] ELSE c]

LowerChar(c) == LowerOf[c]

Lower(s) == [i \in 1..Len(s) |-> LowerChar(s[i])]

(***************************************************************************)
(* Series.str.contains(pat, case=False, na=False) for a pattern that is an *)
(* alternation of literals: a regex search, ignoring case, for any of the  *)
(* alternatives; a cell that is not a string yields na, i.e. False.        *)
(***************************************************************************)
Occurs(p, s) ==
  \E i \in 1..(Len(s) - Len(p) + 1) : SubSeq(s, i, i + Len(p) - 1) = p

\* a variant that matches with case=True
StrContains_CaseSensitive(x, alts) ==
  /\ x.k = "str"
  /\ \E p \in alts : Occurs(p, x.v)

\* a variant with na=True: a missing cell matches
StrContains_NaTrue(x, alts) ==
  \/ x.k # "str"
  \/ \E p \in alts : Occurs(Lower(p), Lower(x.v))

StrContains(x, alts) ==
  /\ x.k = "str"
  /\ \E p \in alts : Occurs(Lower(p), Lower(x.v))

(***************************************************************************)
(* The literals of utils.filter_data_by_team.                              *)
(***************************************************************************)
sBrand == <<"B", "r", "a", "n", "d">>
sPremium == <<"P", "r", "e", "m", "i", "u", "m">>
sLuxury == <<"L", "u", "x", "u", "r", "y">>
sPerformance == <<"P", "e", "r", "f", "o", "r", "m", "a", "n", "c", "e">>
sOperations == <<"O", "p", "e", "r", "a", "t", "i", "o", "n", "s">>
sSocial == <<"S", "o", "c", "i", "a", "l">>
sMarketing == <<"M", "a", "r", "k", "e", "t", "i", "n", "g">>
sFeatured == <<"F", "e", "a", "t", "u", "r", "e", "d">>
sCampaign == <<"C", "a", "m", "p", "a", "i", "g", "n">>

(***************************************************************************)
(* Datasets.                                                               *)
(***************************************************************************)
EmptyFrame == [cols |-> {}, rows |-> <<>>]

IsEmpty(d) == Len(d.rows) = 0 \/ d.cols = {}

Column(d, c) == [i \in 1..Len(d.rows) |-> d.rows[i][c]]

Index(d) == 1..Len(d.rows)

\* df[mask]: a new dataset with the rows whose mask is true, in order
RECURSIVE MaskRows(_, _)
MaskRows(rows, mask) ==
  IF Len(rows) = 0 THEN <<>>
  ELSE (IF Head(mask) THEN <<Head(rows)>> ELSE <<>>)
         \o MaskRows(Tail(rows), Tail(mask))

Select(d, mask) == [cols |-> d.cols, rows |-> MaskRows(d.rows, mask)]

\* df[c] = series: add or replace one column, in place
SetColumn(d, c, series) ==
  [cols |-> d.cols \cup {c},
   rows |-> [i \in Index(d) |->
               [cc \in d.cols \cup {c} |->
                  IF cc = c THEN series[i] ELSE d.rows[i][cc]]]]

(***************************************************************************)
(* utils.filter_data_by_team                                               *)
(***************************************************************************)
BrandMask(d) ==
  [i \in Index(d) |->
     \/ StrContains(d.rows[i]["team_assignment"], {sBrand})
     \/ StrContains(d.rows[i]["product_category"], {sPremium, sLuxury})]

PerformanceMask(d) ==
  [i \in Index(d) |->
     StrContains(d.rows[i]["team_assignment"], {sPerformance, sOperations})]

SocialMask(d) ==
  [i \in Index(d) |->
     \/ StrContains(d.rows[i]["team_assignment"], {sSocial, sMarketing})
     \/ StrContains(d.rows[i]["product_category"], {sFeatured, sCampaign})]

\* a variant whose default case selects nothing
filter_data_by_team_EmptyDefault(d, team_preset) ==
  IF team_preset = "All Teams" THEN d
  ELSE IF team_preset = "Brand Team" THEN Select(d, BrandMask(d))
  ELSE IF team_preset = "Performance Team" THEN Select(d, PerformanceMask(d))
  ELSE IF team_preset = "Social Media Team" THEN Select(d, SocialMask(d))
  ELSE Select(d, [i \in Index(d) |-> FALSE])

filter_data_by_team(d, team_preset) ==
  IF team_preset = "All Teams" THEN d
  ELSE IF team_preset = "Brand Team" THEN Select(d, BrandMask(d))
  ELSE IF team_preset = "Performance Team" THEN Select(d, PerformanceMask(d))
  ELSE IF team_preset = "Social Media Team" THEN Select(d, SocialMask(d))
  ELSE d

(***************************************************************************)
(* Numbers.  Cells hold integers; a mean or a percentage is an exact       *)
(* rational [k |-> "rat", v |-> <<n, d>>] in lowest terms with d > 0, so   *)
(* that equal values have equal representations.                           *)
(***************************************************************************)
RECURSIVE Gcd(_, _)
Gcd(a, b) == IF b = 0 THEN a ELSE Gcd(b, a % b)

Abs(n) == IF n < 0 THEN -n ELSE n

Rat(n, d) ==
  LET g == Gcd(Abs(n), d)
  IN  [k |-> "rat", v |-> <<n \div g, d \div g>>]

\* the value of a numeric cell (num, bool or rat) as numerator / denominator
Numer(x) ==
  IF x.k = "rat" THEN x.v[1]
  ELSE IF x.k = "bool" THEN (IF x.v THEN 1 ELSE 0)
  ELSE x.v

Denom(x) == IF x.k = "rat" THEN x.v[2] ELSE 1

IsNumber(x) == x.k \in {"num", "rat", "bool"}

RatAdd(x, y) ==
  Rat(Numer(x) * Denom(y) + Numer(y) * Denom(x), Denom(x) * Denom(y))

RatScale(c, x) == Rat(c * Numer(x), Denom(x))

RatMul(x, y) == Rat(Numer(x) * Numer(y), Denom(x) * Denom(y))

RatLess(x, y) == Numer(x) * Denom(y) < Numer(y) * Denom(x)

RatEq(x, y) == Numer(x) * Denom(y) = Numer(y) * Denom(x)

\* Series.sum(): nulls are skipped
RECURSIVE SeriesSum(_)
SeriesSum(s) ==
  IF Len(s) = 0 THEN 0
  ELSE (IF IsNumber(Head(s)) THEN Numer(Head(s)) ELSE 0) + SeriesSum(Tail(s))

\* Series.count(): the number of non-null cells
RECURSIVE SeriesCount(_)
SeriesCount(s) ==
  IF Len(s) = 0 THEN 0
  ELSE (IF IsNull(Head(s)) THEN 0 ELSE 1) + SeriesCount(Tail(s))

\* a variant that divides by the number of rows: a null counts as 0
SeriesMean_NullAsZero(s) ==
  IF Len(s) = 0 THEN NaN ELSE Rat(SeriesSum(s), Len(s))

\* Series.mean(): the mean of the non-null cells, NaN when there is none
SeriesMean(s) ==
  IF SeriesCount(s) = 0 THEN NaN ELSE Rat(SeriesSum(s), SeriesCount(s))

(***************************************************************************)
(* pd.to_numeric(errors='coerce') on one cell: a number stays, a string    *)
(* of digits with an optional sign is parsed, anything else becomes NaN.   *)
(***************************************************************************)
IsDigit(c) == Ord(c) \in 4..13

RECURSIVE ParseDigits(_)
ParseDigits(s) ==
  IF Len(s) = 0 THEN 0
  ELSE 10 * ParseDigits(SubSeq(s, 1, Len(s) - 1)) + (Ord(s[Len(s)]) - 4)

AllDigits(s) == Len(s) > 0 /\ \A i \in 1..Len(s) : IsDigit(s[i])

ToNumeric(x) ==
  IF x.k = "num" THEN x
  ELSE IF x.k = "str" /\ AllDigits(x.v) THEN Num(ParseDigits(x.v))
  ELSE IF x.k = "str" /\ Len(x.v) > 1 /\ x.v[1] = "-" /\ AllDigits(Tail(x.v))
       THEN Num(0 - ParseDigits(Tail(x.v)))
  ELSE NaN

(***************************************************************************)
(* pd.to_datetime(errors='coerce') on one cell.  Date cells of the model   *)
(* are timestamps, strings or missing; the strings that parse are the ISO  *)
(* dates 2024-01-01 .. 2024-01-09.                                         *)
(***************************************************************************)
sDatePrefix == <<"2", "0", "2", "4", "-", "0", "1", "-", "0">>

ToDatetime(x) ==
  IF x.k = "ts" THEN x
  ELSE IF /\ x.k = "str"
          /\ Len(x.v) = 10
          /\ SubSeq(x.v, 1, 9) = sDatePrefix
          /\ Ord(x.v[10]) \in 5..13
       THEN Ts((Ord(x.v[10]) - 5) * 24)
  ELSE NaT

\* Series.dtype, as far as the code tests it
Dtype(s) ==
  IF \A i \in 1..Len(s) : s[i].k \in {"ts", "nat"} THEN "datetime64[ns]"
  ELSE IF \A i \in 1..Len(s) : s[i].k = "bool" THEN "bool"
  ELSE IF \A i \in 1..Len(s) : s[i].k = "num" THEN "int64"
  ELSE IF \A i \in 1..Len(s) : s[i].k \in {"num", "nan"} THEN "float64"
  ELSE "object"

\* the loop over the two delivery date columns
ConvertDate(d, c) ==
  IF Dtype(Column(d, c)) # "datetime64[ns]"
  THEN SetColumn(d, c, [i \in Index(d) |-> ToDatetime(d.rows[i][c])])
  ELSE d

ConvertDeliveryDates(d) ==
  ConvertDate(ConvertDate(d, "expected_delivery_date"), "actual_delivery_date")

\* a variant that compares with >= instead of >
DelayFlag_NotStrict(r) ==
  IF /\ r["actual_delivery_date"].k = "ts"
     /\ r["expected_delivery_date"].k = "ts"
     /\ r["actual_delivery_date"].v >= r["expected_delivery_date"].v
  THEN Num(1) ELSE Num(0)

\* (actual_delivery_date > expected_delivery_date).astype(int)
DelayFlag(r) ==
  IF /\ r["actual_delivery_date"].k = "ts"
     /\ r["expected_delivery_date"].k = "ts"
     /\ r["actual_delivery_date"].v > r["expected_delivery_date"].v
  THEN Num(1) ELSE Num(0)

\* df['is_delayed'] = ...
WithDelayFlag(d) ==
  SetColumn(d, "is_delayed", [i \in Index(d) |-> DelayFlag(d.rows[i])])

\* df['processing_time_numeric'] = pd.to_numeric(df['processing_time'], ...)
WithNumeric(d) ==
  SetColumn(d, "processing_time_numeric",
            [i \in Index(d) |-> ToNumeric(d.rows[i]["processing_time"])])

\* Series.map({'True': 1, 'False': 0, True: 1, False: 0}); the keys True and
\* False are also the keys 1 and 0 of the dictionary
sTrue == <<"T", "r", "u", "e">>
sFalse == <<"F", "a", "l", "s", "e">>

MapFulfilled(x) ==
  IF x = Str(sTrue) \/ x = Bool(TRUE) \/ x = Num(1) THEN Num(1)
  ELSE IF x = Str(sFalse) \/ x = Bool(FALSE) \/ x = Num(0) THEN Num(0)
  ELSE NaN

\* df['is_fulfilled'] = df['is_fulfilled'].map(...)
WithMapped(d) ==
  SetColumn(d, "is_fulfilled",
            [i \in Index(d) |-> MapFulfilled(d.rows[i]["is_fulfilled"])])

sDelivered == <<"d", "e", "l", "i", "v", "e", "r", "e", "d">>
sCompleted == <<"c", "o", "m", "p", "l", "e", "t", "e", "d">>
sFulfilled == <<"f", "u", "l", "f", "i", "l", "l", "e", "d">>

fulfilled_statuses == {sDelivered, sCompleted, sFulfilled}

\* order_status.str.lower().isin(fulfilled_statuses).astype(int)
StatusFlag(r) ==
  IF /\ r["order_status"].k = "str"
     /\ Lower(r["order_status"].v) \in fulfilled_statuses
  THEN Num(1) ELSE Num(0)

StatusSeries(d) == [i \in Index(d) |-> StatusFlag(d.rows[i])]

(***************************************************************************)
(* The functions of data_processor.py.  Each takes the dataset and yields  *)
(* [df |-> the dataset as the call leaves it, ret |-> the value returned]; *)
(* the columns are assigned on the caller's object.                        *)
(***************************************************************************)
Raise(e) == [k |-> "raise", v |-> e]

\* a variant that forgets to divide by the number of rows
Percent_NoDivision(count, total) == Rat(100 * count, 1)

Percent(count, total) == Rat(100 * count, total)

\* a variant without the NaN guard of the return statement
calculate_avg_handling_time_NoGuard(d) ==
  LET d1 == WithNumeric(d)
  IN  [df |-> d1, ret |-> SeriesMean(Column(d1, "processing_time_numeric"))]

calculate_avg_handling_time(d) ==
  LET d1 == WithNumeric(d)
      avg_time == SeriesMean(Column(d1, "processing_time_numeric"))
  IN  [df |-> d1, ret |-> IF avg_time # NaN THEN avg_time ELSE Num(0)]

calculate_delay_percentage(d) ==
  IF IsEmpty(d) THEN [df |-> d, ret |-> Num(0)]
  ELSE
    LET d1 == ConvertDeliveryDates(d)
        d2 == WithDelayFlag(d1)
    IN  [df |-> d2,
         ret |-> Percent(SeriesSum(Column(d2, "is_delayed")), Len(d2.rows))]

calculate_fulfillment_rate_FallbackOverwrites(d) ==
  IF IsEmpty(d) THEN [df |-> d, ret |-> Num(0)]
  ELSE IF "is_fulfilled" \in d.cols THEN
    LET d1 == IF Dtype(Column(d, "is_fulfilled")) = "object"
              THEN WithMapped(d)
              ELSE d
    IN  [df |-> d1,
         ret |-> Percent(SeriesSum(Column(d1, "is_fulfilled")), Len(d1.rows))]
  ELSE
    LET d1 == SetColumn(d, "is_fulfilled", StatusSeries(d))
    IN  [df |-> d1,
         ret |-> Percent(SeriesSum(Column(d1, "is_fulfilled")),
                         Len(d1.rows))]

calculate_fulfillment_rate(d) ==
  IF IsEmpty(d) THEN [df |-> d, ret |-> Num(0)]
  ELSE IF "is_fulfilled" \in d.cols THEN
    LET d1 == IF Dtype(Column(d, "is_fulfilled")) = "object"
              THEN WithMapped(d)
              ELSE d
    IN  [df |-> d1,
         ret |-> Percent(SeriesSum(Column(d1, "is_fulfilled")), Len(d1.rows))]
  ELSE
    LET d1 == SetColumn(d, "fulfilled", StatusSeries(d))
    IN  [df |-> d1,
         ret |-> Percent(SeriesSum(Column(d1, "fulfilled")), Len(d1.rows))]

(***************************************************************************)
(* groupby: the keys are the distinct tuples of the key columns over the   *)
(* rows where no key cell is null (dropna=True), in sorted order           *)
(* (sort=True).                                                            *)
(***************************************************************************)
RECURSIVE StrLess(_, _)
StrLess(a, b) ==
  IF Len(b) = 0 THEN FALSE
  ELSE IF Len(a) = 0 THEN TRUE
  ELSE IF a[1] = b[1] THEN StrLess(Tail(a), Tail(b))
  ELSE Ord(a[1]) < Ord(b[1])

CellLess(x, y) == IF x.k = "str" THEN StrLess(x.v, y.v) ELSE x.v < y.v

RECURSIVE KeyLess(_, _)
KeyLess(a, b) ==
  IF Len(a) = 0 THEN FALSE
  ELSE IF a[1] = b[1] THEN KeyLess(Tail(a), Tail(b))
  ELSE CellLess(a[1], b[1])

RECURSIVE SortKeys(_)
SortKeys(S) ==
  IF S = {} THEN <<>>
  ELSE LET m == CHOOSE a \in S : \A b \in S \ {a} : KeyLess(a, b)
       IN  <<m>> \o SortKeys(S \ {m})

KeyOf(r, by) == [i \in 1..Len(by) |-> r[by[i]]]

HasKey(r, by) == \A i \in 1..Len(by) : ~IsNull(r[by[i]])

GroupKeys(d, by) ==
  {KeyOf(d.rows[i], by) : i \in {j \in 1..Len(d.rows) : HasKey(d.rows[j], by)}}

Group(d, by, key) ==
  [cols |-> d.cols,
   rows |-> MaskRows(d.rows, [i \in Index(d) |->
                       HasKey(d.rows[i], by) /\ KeyOf(d.rows[i], by) = key])]

(***************************************************************************)
(* get_warehouse_performance                                               *)
(***************************************************************************)
NanOr(x, y, z, val) == IF x = NaN \/ y = NaN \/ z = NaN THEN NaN ELSE val

Times100(x) == IF x = NaN THEN NaN ELSE RatScale(100, x)

PerformanceScore_AddsFulfilment(avg, delay, fulfil) ==
  NanOr(avg, delay, fulfil,
        RatAdd(RatAdd(RatMul(avg, Rat(4, 10)), RatMul(delay, Rat(4, 10))),
               RatMul(fulfil, Rat(2, 10))))

PerformanceScore(avg, delay, fulfil) ==
  NanOr(avg, delay, fulfil,
        RatAdd(RatAdd(RatMul(avg, Rat(4, 10)), RatMul(delay, Rat(4, 10))),
               RatScale(-1, RatMul(fulfil, Rat(2, 10)))))

WarehouseKey == <<"warehouse_id", "warehouse_name", "warehouse_location">>

WarehouseRow(d, key) ==
  LET g == Group(d, WarehouseKey, key)
      avg == SeriesMean(Column(g, "processing_time_numeric"))
      delay == Times100(SeriesMean(Column(g, "is_delayed")))
      fulfil == Times100(SeriesMean(Column(g, "is_fulfilled")))
  IN  [warehouse_id |-> key[1],
       warehouse_name |-> key[2],
       warehouse_location |-> key[3],
       avg_processing_time |-> avg,
       delay_rate |-> delay,
       fulfillment_rate |-> fulfil,
       order_count |-> Num(SeriesCount(Column(g, "order_id"))),
       performance_score |-> PerformanceScore(avg, delay, fulfil)]

WarehouseCols ==
  {"warehouse_id", "warehouse_name", "warehouse_location",
   "avg_processing_time", "delay_rate", "fulfillment_rate", "order_count",
   "performance_score"}

get_warehouse_performance(d) ==
  IF IsEmpty(d) THEN [df |-> d, ret |-> EmptyFrame]
  ELSE
    LET d1 == WithNumeric(d)
        d2 == ConvertDeliveryDates(d1)
        d3 == WithDelayFlag(d2)
    IN  IF "is_fulfilled" \notin d3.cols
        THEN [df |-> d3, ret |-> Raise("KeyError")]
        ELSE
          LET d4 == IF Dtype(Column(d3, "is_fulfilled")) = "object"
                    THEN WithMapped(d3)
                    ELSE d3
              keys == SortKeys(GroupKeys(d4, WarehouseKey))
          IN  [df |-> d4,
               ret |-> [cols |-> WarehouseCols,
                        rows |-> [i \in 1..Len(keys) |->
                                    WarehouseRow(d4, keys[i])]]]

(***************************************************************************)
(* identify_bottlenecks.  pd.cut with its default right=True: the bins are *)
(* (bins[i], bins[i+1]], the last one unbounded; a value in no bin, or a   *)
(* missing value, gets no category.                                        *)
(***************************************************************************)
bins == <<0, 2, 6, 12, 24>>

labels == <<"Rapid", "Normal", "Extended", "Delayed", "Critical">>

Cat(i) == [k |-> "cat", v |-> i]

InBin(x, i) ==
  /\ bins[i] < x
  /\ i < Len(bins) => x <= bins[i + 1]

Cut(x) ==
  IF x.k = "num" /\ \E i \in 1..Len(bins) : InBin(x.v, i)
  THEN Cat(CHOOSE i \in 1..Len(bins) : InBin(x.v, i))
  ELSE NaN

StageLabel(x) == IF x.k = "cat" THEN labels[x.v] ELSE "none"

BottleneckKey == <<"warehouse_id", "warehouse_name", "stage">>

Uniques(d, c) ==
  {d.rows[i][c] : i \in {j \in 1..Len(d.rows) : ~IsNull(d.rows[j][c])}}

\* the keys of a groupby that has a categorical key: only the observed
\* combinations (observed=True), or the product of the levels of every key
\* (observed=False); which one is the default depends on the pandas release
BottleneckKeys(d, observed) ==
  IF observed THEN GroupKeys(d, BottleneckKey)
  ELSE {<<w, n, Cat(i)>> : w \in Uniques(d, "warehouse_id"),
                           n \in Uniques(d, "warehouse_name"),
                           i \in 1..Len(labels)}

BottleneckCols == {"warehouse_id", "warehouse_name", "stage", "count"}

identify_bottlenecks(d, observed) ==
  IF IsEmpty(d) THEN [df |-> d, ret |-> EmptyFrame]
  ELSE
    LET d1 == WithNumeric(d)
        d2 == SetColumn(d1, "stage",
                        [i \in Index(d1) |->
                           Cut(d1.rows[i]["processing_time_numeric"])])
        keys == SortKeys(BottleneckKeys(d2, observed))
    IN  [df |-> d2,
         ret |-> [cols |-> BottleneckCols,
                  rows |-> [i \in 1..Len(keys) |->
                     [warehouse_id |-> keys[i][1],
                      warehouse_name |-> keys[i][2],
                      stage |-> keys[i][3],
                      count |-> Num(Len(Group(d2, BottleneckKey,
                                              keys[i]).rows))]]]]

(***************************************************************************)
(* analyze_trends.  The model's epoch, 2024-01-01, is a Monday; the        *)
(* timestamps of the model lie in January 2024.                            *)
(***************************************************************************)
DateOf_KeepsTime(x) == IF x.k = "ts" THEN [k |-> "date", v |-> x.v] ELSE NaT

DateOf(x) == IF x.k = "ts" THEN [k |-> "date", v |-> x.v \div 24] ELSE NaT

MonthOf(x) == IF x.k = "ts" THEN Num(1) ELSE NaN

DayOfWeek(x) == IF x.k = "ts" THEN Num((x.v \div 24) % 7) ELSE NaN

TrendCols == {"date", "avg_processing_time", "order_count"}

analyze_trends(d) ==
  IF IsEmpty(d) THEN [df |-> d, ret |-> EmptyFrame]
  ELSE
    LET d1 == ConvertDate(d, "order_date")
        d2 == SetColumn(d1, "date",
                        [i \in Index(d1) |-> DateOf(d1.rows[i]["order_date"])])
        d3 == SetColumn(d2, "month",
                        [i \in Index(d2) |-> MonthOf(d2.rows[i]["order_date"])])
        d4 == SetColumn(d3, "day_of_week",
                        [i \in Index(d3) |->
                           DayOfWeek(d3.rows[i]["order_date"])])
        d5 == WithNumeric(d4)
        keys == SortKeys(GroupKeys(d5, <<"date">>))
    IN  [df |-> d5,
         ret |-> [cols |-> TrendCols,
                  rows |-> [i \in 1..Len(keys) |->
                     LET g == Group(d5, <<"date">>, keys[i])
                     IN  [date |-> keys[i][1],
                          avg_processing_time |->
                            SeriesMean(Column(g, "processing_time_numeric")),
                          order_count |->
                            Num(SeriesCount(Column(g, "order_id")))]]]]

(***************************************************************************)
(* Input datasets.  Every dataset has the columns of the joined query;     *)
(* is_fulfilled may be absent.  BaseRow is an on-time, fulfilled order;    *)
(* the row sets below vary the fields one aspect at a time.                *)
(***************************************************************************)
S1(a) == <<a>>

sTeamBrand == sBrand \o S1(" ") \o <<"T", "e", "a", "m">>
sTeamPerformance == sPerformance \o S1(" ") \o <<"T", "e", "a", "m">>
sTeamSocial == sSocial \o S1(" ") \o <<"M", "e", "d", "i", "a">>
sTeamOps == <<"O", "P", "E", "R", "A", "T", "I", "O", "N", "S">>
sTeamMarketing == <<"m", "a", "r", "k", "e", "t", "i", "n", "g">>
sElectronics == <<"E", "l", "e", "c", "t", "r", "o", "n", "i", "c", "s">>
sCatLuxury == <<"l", "u", "x", "u", "r", "y", " ", "G", "o", "o", "d", "s">>
sCatCampaign == <<"C", "A", "M", "P", "A", "I", "G", "N">>
sShipped == <<"S", "h", "i", "p", "p", "e", "d">>
sDeliveredCap == <<"D", "e", "l", "i", "v", "e", "r", "e", "d">>
sCompletedUp == <<"C", "O", "M", "P", "L", "E", "T", "E", "D">>
sYes == <<"y", "e", "s">>
sAbc == <<"a", "b", "c">>
sWh1 == <<"W", "a", "r", "e", "h", "o", "u", "s", "e", " ", "#", "1">>
sWh2 == <<"W", "a", "r", "e", "h", "o", "u", "s", "e", " ", "#", "2">>
sChicago == <<"C", "h", "i", "c", "a", "g", "o">>
sDallas == <<"D", "a", "l", "l", "a", "s">>
sJan(day) == sDatePrefix \o S1(day)

RawCols ==
  {"warehouse_id", "warehouse_name", "warehouse_location", "team_assignment",
   "product_category", "order_id", "order_date", "expected_delivery_date",
   "actual_delivery_date", "processing_time", "order_status", "is_fulfilled"}

BaseRow ==
  [c \in RawCols |->
     CASE c = "warehouse_id" -> Num(1)
       [] c = "warehouse_name" -> Str(sWh1)
       [] c = "warehouse_location" -> Str(sChicago)
       [] c = "team_assignment" -> Str(sTeamPerformance)
       [] c = "product_category" -> Str(sElectronics)
       [] c = "order_id" -> Num(1)
       [] c = "order_date" -> Ts(0)
       [] c = "expected_delivery_date" -> Ts(48)
       [] c = "actual_delivery_date" -> Ts(48)
       [] c = "processing_time" -> Num(10)
       [] c = "order_status" -> Str(sDeliveredCap)
       [] c = "is_fulfilled" -> Num(1)]

Teams ==
  {Str(sTeamBrand), Str(sTeamPerformance), Str(sTeamSocial), Str(sTeamOps),
   Str(sTeamMarketing), None}

Categories ==
  {Str(sElectronics), Str(sPremium), Str(sCatLuxury), Str(sFeatured),
   Str(sCatCampaign), None}

FilterRows ==
  {[BaseRow EXCEPT !["team_assignment"] = t, !["product_category"] = c] :
     t \in Teams, c \in Categories}

ExpectedDates == {Ts(48), Str(sJan("3")), None}

ActualDates == {Ts(48), Ts(49), Str(sJan("4")), Str(sAbc), None}

DelayRows ==
  {[BaseRow EXCEPT !["expected_delivery_date"] = e,
                   !["actual_delivery_date"] = a] :
     e \in ExpectedDates, a \in ActualDates}

FulfilledValues ==
  {Bool(TRUE), Bool(FALSE), Str(sTrue), Str(sFalse), Str(sYes), None,
   Num(1), Num(0)}

Statuses ==
  {Str(sDeliveredCap), Str(sCompletedUp), Str(sFulfilled), Str(sShipped), None}

FulfilRows ==
  {[BaseRow EXCEPT !["is_fulfilled"] = f, !["order_status"] = Str(sShipped)] :
     f \in FulfilledValues}
  \cup {[BaseRow EXCEPT !["is_fulfilled"] = f] :
          f \in {Bool(FALSE), Str(sYes), None}}

StatusRows == {[BaseRow EXCEPT !["order_status"] = s] : s \in Statuses}

StageTimes ==
  {Num(0), Num(1), Num(2), Num(5), Num(6), Num(12), Num(24), Num(30),
   Num(-1), None}

StageRows == {[BaseRow EXCEPT !["processing_time"] = t] : t \in StageTimes}

ProcessingTimes == {Num(4), Str(<<"7">>), Str(sAbc), None}

HandlingRows ==
  {[BaseRow EXCEPT !["processing_time"] = t, !["warehouse_id"] = Num(w)] :
     t \in ProcessingTimes, w \in {1, 2}}
  \cup {[BaseRow EXCEPT !["processing_time"] = t, !["order_date"] = Ts(24)] :
          t \in ProcessingTimes}

WarehouseRows ==
  {[BaseRow EXCEPT !["warehouse_id"] = Num(w), !["warehouse_name"] = n,
                   !["warehouse_location"] = l] :
     w \in {1, 2}, n \in {Str(sWh1), Str(sWh2), None},
     l \in {Str(sChicago), None}}

(***************************************************************************)
(* The insight engine: the inline logic of app.py and                      *)
(* utils.generate_recommendations.  A message is its text; "(!)" stands    *)
(* for the warning sign the texts start with.                              *)
(***************************************************************************)
\* a > b on numbers
Greater(a, b) == RatLess(b, a)

Warning(text) == [kind |-> "warning", text |-> text]

Info(text) == [kind |-> "info", text |-> text]

AppDelayWarning ==
  Warning("(!) High delay percentage detected. Consider reviewing delivery processes.")

AppHandlingWarning ==
  Warning("(!) Handling time exceeds 24 hours. Investigate warehouse efficiency.")

AppFulfillmentWarning ==
  Warning("(!) Fulfillment rate is below target. Analyze order completion workflow.")

AppRecommendations(team_preset) ==
  IF team_preset = "Brand Team"
  THEN <<Info("Focus on reducing delays for premium brands which currently have a higher than average delay rate."),
         Info("Consider priority processing for top-tier brand products to maintain brand reputation.")>>
  ELSE IF team_preset = "Performance Team"
  THEN <<Info("Warehouse #3 shows significant bottlenecks in the packaging stage. Consider process optimization."),
         Info("Implement cross-training to balance workload during peak hours.")>>
  ELSE IF team_preset = "Social Media Team"
  THEN <<Info("Products featured in recent campaigns show increased processing times. Consider pre-stocking before campaigns."),
         Info("Track social media metrics alongside delivery performance to predict demand surges.")>>
  ELSE <<Info("Optimize warehouse layouts based on the heatmap to reduce bottlenecks."),
         Info("Consider adjusting staffing levels during peak processing hours identified in the time analysis.")>>

\* app.py, "Operational Insights" and "Recommendations"
OperationalInsights(avg, delay, fulfil, team_preset) ==
  (IF Greater(delay, Num(20)) THEN <<AppDelayWarning>> ELSE <<>>)
  \o (IF Greater(avg, Num(24)) THEN <<AppHandlingWarning>> ELSE <<>>)
  \o (IF RatLess(fulfil, Num(85)) THEN <<AppFulfillmentWarning>> ELSE <<>>)
  \o AppRecommendations(team_preset)

\* metrics.get(key, 0)
Get(metrics, key) == IF key \in DOMAIN metrics THEN metrics[key] ELSE Num(0)

HandlingWarning ==
  "(!) Handling times are above target. Review warehouse processing workflows."

DelayWarning ==
  "(!) Delay rates are concerning. Investigate shipping partners and internal processes."

FulfillmentWarning ==
  "(!) Fulfillment rates are below target. Address inventory management."

TeamRecommendations(team_preset) ==
  IF team_preset = "Brand Team"
  THEN <<"Focus on premium product lines which currently have higher processing times.",
         "Consider dedicated handling for high-value items to maintain brand reputation.">>
  ELSE IF team_preset = "Performance Team"
  THEN <<"Implement cross-training to reduce bottlenecks in the packaging stage.",
         "Review staff allocation during peak hours based on the time analysis.">>
  ELSE IF team_preset = "Social Media Team"
  THEN <<"Coordinate warehouse staffing with upcoming social media campaigns.",
         "Pre-stock frequently promoted items to reduce processing time during campaign periods.">>
  ELSE <<>>

generate_recommendations(metrics, team_preset) ==
  (IF Greater(Get(metrics, "avg_handling_time"), Num(24))
   THEN <<HandlingWarning>> ELSE <<>>)
  \o (IF Greater(Get(metrics, "delay_percentage"), Num(15))
      THEN <<DelayWarning>> ELSE <<>>)
  \o (IF RatLess(Get(metrics, "fulfillment_rate"), Num(90))
      THEN <<FulfillmentWarning>> ELSE <<>>)
  \o TeamRecommendations(team_preset)

\* ten orders of one warehouse: the first `late` delivered after the expected
\* date, the first `fulfilled` fulfilled, all processed in `hours`
ScoreRow(i, hours, late, fulfilled) ==
  [BaseRow EXCEPT
     !["order_id"] = Num(i),
     !["processing_time"] = Num(hours),
     !["actual_delivery_date"] = IF i <= late THEN Ts(49) ELSE Ts(48),
     !["is_fulfilled"] = IF i <= fulfilled THEN Num(1) ELSE Num(0)]

ScoreFrames ==
  {[cols |-> RawCols,
    rows |-> [i \in 1..10 |-> ScoreRow(i, hours, late, fulfilled)]] :
     hours \in {0, 10, 25}, late \in 0..10, fulfilled \in 0..10}

\* KPI values around the thresholds of the insight engine
HandlingValues == {Num(10), Num(24), Rat(49, 2), Num(30)}

DelayValues == {Num(10), Num(15), Num(16), Num(20), Rat(41, 2)}

FulfillmentValues == {Num(80), Num(85), Rat(175, 2), Num(90), Num(95)}

MetricKeys == {"avg_handling_time", "delay_percentage", "fulfillment_rate"}

MetricValues(key) ==
  IF key = "avg_handling_time" THEN HandlingValues
  ELSE IF key = "delay_percentage" THEN DelayValues
  ELSE FulfillmentValues

\* the metrics dictionaries, a key possibly absent
Metrics ==
  UNION {{f \in [K -> UNION {MetricValues(k) : k \in K}] :
            \A k \in K : f[k] \in MetricValues(k)} :
         K \in SUBSET MetricKeys}

OrderDates ==
  {Ts(0), Ts(23), Ts(24), Str(sJan("1")), Str(sJan("2")), None}

TrendRows ==
  {[BaseRow EXCEPT !["order_date"] = t, !["processing_time"] = h] :
     t \in OrderDates, h \in {Num(4), None}}

\* orders whose cells the functions rewrite in place: dates and numbers
\* held as text, is_fulfilled as text, as a native boolean and missing
SeqRows ==
  {BaseRow,
   [BaseRow EXCEPT !["warehouse_id"] = Num(2),
                   !["expected_delivery_date"] = Str(sJan("3")),
                   !["actual_delivery_date"] = Str(sJan("4")),
                   !["processing_time"] = Str(<<"7">>),
                   !["order_status"] = Str(sShipped),
                   !["is_fulfilled"] = Str(sTrue)],
   [BaseRow EXCEPT !["actual_delivery_date"] = None,
                   !["processing_time"] = None,
                   !["order_date"] = Str(sJan("2")),
                   !["is_fulfilled"] = None],
   [BaseRow EXCEPT !["actual_delivery_date"] = Str(sAbc),
                   !["order_status"] = Str(sShipped),
                   !["is_fulfilled"] = Bool(FALSE)]}

DropColumn(d, c) ==
  [cols |-> d.cols \ {c},
   rows |-> [i \in 1..Len(d.rows) |-> [cc \in d.cols \ {c} |-> d.rows[i][cc]]]]

Frames(R) ==
  {[cols |-> RawCols, rows |-> rs] :
     rs \in UNION {[1..n -> R] : n \in 0..MaxRows}}

(***************************************************************************)
(* The state: df is the caller's dataset object, op the last function      *)
(* called, preset the preset of the last filter call, arg the dataset as   *)
(* it was when the call was made, ret the value the call returned, fresh   *)
(* a copy of the dataset as it arrived from the data source.               *)
(* session_state is the session of the dashboard and run what its last     *)
(* script run did.                                                         *)
(***************************************************************************)
NoValue == [k |-> "novalue", v |-> 0]

\* st.session_state as the first run of a session initialises it
NewSession == [use_sample_data |-> FALSE, uploaded_data |-> None]

\* no dashboard involved
NoApp == session_state = NewSession /\ run = NoValue

(***************************************************************************)
(* The dashboard script (app.py) and the database collaborator             *)
(* (database.py).  The database is the environment: whether a connection   *)
(* can be made, whether the query succeeds and the rows it returns are     *)
(* inputs of a run.                                                        *)
(***************************************************************************)
IsDataset(x) == DOMAIN x = {"cols", "rows"}

IsNone(x) == DOMAIN x = {"k", "v"} /\ x.k = "none"

IsRaised(x) == DOMAIN x = {"k", "v"} /\ x.k = "raise"

\* the generated sample: delivered and undelivered orders of two warehouses
SampleData ==
  [cols |-> RawCols,
   rows |-> <<[BaseRow EXCEPT !["team_assignment"] = Str(sTeamBrand),
                              !["processing_time"] = Num(30)],
              [BaseRow EXCEPT !["warehouse_id"] = Num(2),
                              !["warehouse_name"] = Str(sWh2),
                              !["warehouse_location"] = Str(sDallas),
                              !["order_id"] = Num(2),
                              !["actual_delivery_date"] = None,
                              !["order_status"] = Str(sShipped),
                              !["is_fulfilled"] = Num(0)]>>]

get_sample_data == SampleData

\* rows of the joined query: timestamps, is_fulfilled a boolean
DbOrders ==
  <<[BaseRow EXCEPT !["warehouse_id"] = Num(2),
                    !["warehouse_name"] = Str(sWh2),
                    !["team_assignment"] = Str(sTeamSocial),
                    !["order_id"] = Num(2),
                    !["actual_delivery_date"] = Ts(49),
                    !["processing_time"] = Num(30),
                    !["is_fulfilled"] = Bool(FALSE)],
    [BaseRow EXCEPT !["is_fulfilled"] = Bool(TRUE)]>>

\* the orders of the selected date range
DbFrames ==
  {[cols |-> RawCols, rows |-> SubSeq(DbOrders, 1, n)] :
     n \in 0..Len(DbOrders)}

\* what the database does in a run: no connection, a failing query, rows
DbOutcomes ==
  {[up |-> FALSE, ok |-> FALSE, rows |-> EmptyFrame],
   [up |-> TRUE, ok |-> FALSE, rows |-> EmptyFrame]}
  \cup {[up |-> TRUE, ok |-> TRUE, rows |-> d] : d \in DbFrames}

Connection == [k |-> "conn", v |-> 0]

\* psycopg2.connect failing is caught: the function returns None
get_db_connection(up) == IF up THEN Connection ELSE None

\* pd.read_sql: raises without a connection and when the query fails
read_sql(conn, ok, rows) ==
  IF IsNone(conn) THEN Raise("AttributeError")
  ELSE IF ok THEN rows
  ELSE Raise("DatabaseError")

execute_query(up, ok, rows) ==
  LET conn == get_db_connection(up)
  IN  IF IsNone(conn) THEN None
      ELSE LET res == read_sql(conn, ok, rows)
           IN  IF IsRaised(res) THEN None ELSE res

get_warehouse_data_NoFallback(up, ok, rows) == execute_query(up, ok, rows)

get_warehouse_data(up, ok, rows) ==
  LET result == execute_query(up, ok, rows)
  IN  IF IsNone(result) THEN get_sample_data ELSE result

Source(d, name, queried) ==
  [df |-> d, data_source |-> name, db_queried |-> queried]

SelectSource_SampleFirst(ss, up, ok, rows) ==
  IF ss.use_sample_data THEN Source(get_sample_data, "sample", FALSE)
  ELSE IF ~IsNone(ss.uploaded_data)
  THEN Source(ss.uploaded_data, "uploaded", FALSE)
  ELSE LET res == read_sql(get_db_connection(up), ok, rows)
       IN  IF IsRaised(res) THEN Source(get_sample_data, "sample", TRUE)
           ELSE Source(res, "database", TRUE)

\* app.py, the data source selector
SelectSource(ss, up, ok, rows) ==
  IF ~IsNone(ss.uploaded_data)
  THEN Source(ss.uploaded_data, "uploaded", FALSE)
  ELSE IF ss.use_sample_data THEN Source(get_sample_data, "sample", FALSE)
  ELSE LET res == read_sql(get_db_connection(up), ok, rows)
       IN  IF IsRaised(res) THEN Source(get_sample_data, "sample", TRUE)
           ELSE Source(res, "database", TRUE)

\* what a run shows when the dashboard body is not entered
Blank(d, screen) ==
  [filter_arg |-> NoValue, kpi_arg |-> NoValue, kpis |-> NoValue,
   warehouse_performance |-> NoValue, messages |-> <<>>, screen |-> screen,
   df |-> d]

\* the body under "if data_source != 'uploaded'", on a dataset
Dashboard(d, team_preset) ==
  LET filtered == filter_data_by_team(d, team_preset)
  IN  IF IsEmpty(filtered)
      THEN [Blank(filtered, "no_data") EXCEPT !.filter_arg = d]
      ELSE
        LET a == calculate_avg_handling_time(filtered)
            b == calculate_delay_percentage(a.df)
            c == calculate_fulfillment_rate(b.df)
            w == get_warehouse_performance(c.df)
        IN  [filter_arg |-> d,
             kpi_arg |-> filtered,
             kpis |-> [avg_handling_time |-> a.ret,
                       delay_percentage |-> b.ret,
                       fulfillment_rate |-> c.ret],
             warehouse_performance |-> w.ret,
             messages |-> IF IsRaised(w.ret) THEN <<>>
                          ELSE OperationalInsights(a.ret, b.ret, c.ret,
                                                   team_preset),
             screen |-> IF IsRaised(w.ret) THEN "exception" ELSE "dashboard",
             df |-> w.df]

DashboardBody_Unguarded(src, team_preset) ==
  IF ~IsDataset(src.df)
  THEN [Blank(src.df, "exception") EXCEPT !.filter_arg = src.df]
  ELSE Dashboard(src.df, team_preset)

\* filter_data_by_team and df.empty raise on a value that is no DataFrame
DashboardBody(src, team_preset) ==
  IF src.data_source = "uploaded" THEN Blank(src.df, "blank")
  ELSE IF ~IsDataset(src.df)
  THEN [Blank(src.df, "exception") EXCEPT !.filter_arg = src.df]
  ELSE Dashboard(src.df, team_preset)

\* the file in the uploader: none, one pd.read_excel cannot read, a sheet
Sheets ==
  {Raise("ValueError"), EmptyFrame, [cols |-> RawCols, rows |-> <<BaseRow>>]}

UploadedFiles ==
  {None} \cup {[name |-> "orders.xlsx", sheet |-> x] : x \in Sheets}

\* what the user does in the sidebar during a run
SidebarEvents ==
  {[clicked |-> TRUE, file |-> None]}
  \cup {[clicked |-> FALSE, file |-> f] : f \in UploadedFiles}

\* pd.read_excel: the first sheet as a DataFrame, or an exception
read_excel(file) == file.sheet

PresetOptions ==
  {"All Teams", "Brand Team", "Performance Team", "Social Media Team"}

InitApp ==
  /\ df = EmptyFrame
  /\ op = "init"
  /\ preset = "All Teams"
  /\ arg = EmptyFrame
  /\ ret = NoValue
  /\ fresh = EmptyFrame
  /\ NoApp

InitWith(D) ==
  /\ df \in D
  /\ op = "init"
  /\ preset = "All Teams"
  /\ arg = EmptyFrame
  /\ ret = NoValue
  /\ fresh = df
  /\ NoApp

InitFilter == InitWith(Frames(FilterRows))

InitDelay == InitWith(Frames(DelayRows))

InitFulfil == InitWith(Frames(FulfilRows))

InitStatus ==
  InitWith({DropColumn(d, "is_fulfilled") : d \in Frames(StatusRows)})

InitStage == InitWith(Frames(StageRows))

InitHandling == InitWith(Frames(HandlingRows))

InitWarehouse == InitWith(Frames(WarehouseRows))

InitTrends == InitWith(Frames(TrendRows))

InitScore == InitWith(ScoreFrames)

InitSeq ==
  InitWith(Frames(SeqRows)
           \cup {DropColumn(d, "is_fulfilled") : d \in Frames(SeqRows)})

\* the KPI values of a run, held in arg
InitInsights ==
  /\ df = EmptyFrame
  /\ op = "init"
  /\ preset = "All Teams"
  /\ arg \in Metrics
  /\ ret = NoValue
  /\ fresh = EmptyFrame
  /\ NoApp

Presets ==
  {"All Teams", "Brand Team", "Performance Team", "Social Media Team",
   "Unknown Team", "brand team"}

Call(name, r) ==
  /\ op' = name
  /\ arg' = df
  /\ df' = r.df
  /\ ret' = r.ret
  /\ UNCHANGED <<preset, fresh, session_state, run>>

FilterDataByTeam ==
  \E p \in Presets :
    /\ op' = "filter_data_by_team"
    /\ preset' = p
    /\ arg' = df
    /\ ret' = filter_data_by_team(df, p)
    /\ UNCHANGED <<df, fresh, session_state, run>>

CalculateAvgHandlingTime ==
  Call("calculate_avg_handling_time", calculate_avg_handling_time(df))

CalculateDelayPercentage ==
  Call("calculate_delay_percentage", calculate_delay_percentage(df))

CalculateFulfillmentRate ==
  Call("calculate_fulfillment_rate", calculate_fulfillment_rate(df))

GetWarehousePerformance ==
  Call("get_warehouse_performance", get_warehouse_performance(df))

IdentifyBottlenecks ==
  \E observed \in BOOLEAN :
    Call("identify_bottlenecks", identify_bottlenecks(df, observed))

AnalyzeTrends == Call("analyze_trends", analyze_trends(df))

\* the inline insight logic of app.py on the three KPIs of the run
AppInsights ==
  \E p \in Presets :
    /\ DOMAIN arg = MetricKeys
    /\ op' = "operational_insights"
    /\ preset' = p
    /\ ret' = OperationalInsights(arg["avg_handling_time"],
                                  arg["delay_percentage"],
                                  arg["fulfillment_rate"], p)
    /\ UNCHANGED <<df, arg, fresh, session_state, run>>

GenerateRecommendations ==
  \E p \in Presets :
    /\ op' = "generate_recommendations"
    /\ preset' = p
    /\ ret' = generate_recommendations(arg, p)
    /\ UNCHANGED <<df, arg, fresh, session_state, run>>

\* the session after the sidebar section that follows the dashboard: the
\* "Load Sample Data" button sets the flag and reruns at once, otherwise a
\* file in the uploader is read and kept when it can be read
Sidebar_UploadStartsOver(ss, clicked, file) ==
  IF clicked THEN [ss EXCEPT !.use_sample_data = TRUE]
  ELSE IF IsNone(file) \/ IsRaised(read_excel(file)) THEN ss
  ELSE [use_sample_data |-> FALSE, uploaded_data |-> read_excel(file)]

Sidebar(ss, clicked, file) ==
  IF clicked THEN [ss EXCEPT !.use_sample_data = TRUE]
  ELSE IF IsNone(file) \/ IsRaised(read_excel(file)) THEN ss
  ELSE [ss EXCEPT !.uploaded_data = read_excel(file)]

Shown(date_valid, ss, db, src, body) ==
  [date_valid |-> date_valid,
   session |-> ss,
   db |-> IF src.db_queried THEN [up |-> db.up, ok |-> db.ok] ELSE NoValue,
   data_source |-> src.data_source,
   db_queried |-> src.db_queried,
   filter_arg |-> body.filter_arg,
   kpi_arg |-> body.kpi_arg,
   kpis |-> body.kpis,
   warehouse_performance |-> body.warehouse_performance,
   messages |-> body.messages,
   screen |-> body.screen]

\* one run of the script with a date range of two dates, top to bottom
RunDashboard ==
  \E team_preset \in PresetOptions, db \in DbOutcomes, ev \in SidebarEvents :
    \E src \in {SelectSource(session_state, db.up, db.ok, db.rows)} :
      \E body \in {DashboardBody(src, team_preset)} :
        /\ op' = "run"
        /\ preset' = team_preset
        /\ arg' = src.df
        /\ df' = body.df
        /\ ret' = NoValue
        /\ run' = Shown(TRUE, session_state, db, src, body)
        /\ session_state' = IF body.screen = "exception" THEN session_state
                            ELSE Sidebar(session_state, ev.clicked, ev.file)
        /\ UNCHANGED fresh

\* one run while the date input holds one date: only the sidebar acts
RunWithoutRange ==
  \E team_preset \in PresetOptions, ev \in SidebarEvents :
    /\ op' = "run"
    /\ preset' = team_preset
    /\ arg' = EmptyFrame
    /\ df' = EmptyFrame
    /\ ret' = NoValue
    /\ run' = Shown(FALSE, session_state, NoValue,
                    Source(EmptyFrame, "none", FALSE),
                    Blank(EmptyFrame, "invalid_range"))
    /\ session_state' = Sidebar(session_state, ev.clicked, ev.file)
    /\ UNCHANGED fresh

Run == RunDashboard \/ RunWithoutRange

\* database.get_warehouse_data, whatever the database does
GetWarehouseData ==
  \E db \in DbOutcomes :
    /\ op' = "get_warehouse_data"
    /\ ret' = get_warehouse_data(db.up, db.ok, db.rows)
    /\ arg' = db.rows
    /\ UNCHANGED <<df, preset, fresh, session_state, run>>

NextApp == Run \/ GetWarehouseData

SpecApp == InitApp /\ [][NextApp]_vars

NextFilter == op = "init" /\ FilterDataByTeam

\* one call on a dataset as it arrives from the data source
Next ==
  /\ op = "init"
  /\ \/ CalculateAvgHandlingTime
     \/ CalculateDelayPercentage
     \/ CalculateFulfillmentRate
     \/ GetWarehousePerformance
     \/ IdentifyBottlenecks
     \/ AnalyzeTrends

Init ==
  \/ InitDelay
  \/ InitFulfil
  \/ InitStatus
  \/ InitStage
  \/ InitHandling
  \/ InitWarehouse
  \/ InitTrends

Spec == Init /\ [][Next]_vars

SpecFilter == InitFilter /\ [][NextFilter]_vars

\* any sequence of calls on the same dataset object
NextSeq ==
  \/ CalculateAvgHandlingTime
  \/ CalculateDelayPercentage
  \/ CalculateFulfillmentRate
  \/ GetWarehousePerformance
  \/ IdentifyBottlenecks
  \/ AnalyzeTrends

SpecSeq == InitSeq /\ [][NextSeq]_vars

NextInsights == op = "init" /\ (AppInsights \/ GenerateRecommendations)

SpecInsights == InitInsights /\ [][NextInsights]_vars

\* the warehouse table of a warehouse with ten orders
NextScore == op = "init" /\ GetWarehousePerformance

SpecScore == InitScore /\ [][NextScore]_vars

(***************************************************************************)
(* Properties.                                                             *)
(***************************************************************************)
IsFrame(x) == DOMAIN x = {"cols", "rows"}

Called(name) == op = name

ScalarOps ==
  {"calculate_avg_handling_time", "calculate_delay_percentage",
   "calculate_fulfillment_rate"}

TableOps ==
  {"get_warehouse_performance", "identify_bottlenecks", "analyze_trends"}

InPercentRange(x) ==
  /\ IsNumber(x)
  /\ 0 <= Numer(x)
  /\ Numer(x) <= 100 * Denom(x)

\* C1: whatever the dataset (missing or unparseable delivery dates, any mix
\* of is_fulfilled values, the column absent), calculate_delay_percentage and
\* calculate_fulfillment_rate return a number in the closed range [0, 100].
C1_RatesInRange ==
  op \in {"calculate_delay_percentage", "calculate_fulfillment_rate"}
    => InPercentRange(ret)

\* two rows, is_fulfilled "yes" and True: the rate is 50
C1_Witness ==
  /\ Called("calculate_fulfillment_rate")
  /\ Len(arg.rows) = 2
  /\ arg.rows[1]["is_fulfilled"] = Str(sYes)
  /\ arg.rows[2]["is_fulfilled"] = Bool(TRUE)
  /\ ret = Rat(50, 1)

\* C2: on a dataset with zero rows the three scalar KPIs return 0 and
\* get_warehouse_performance, identify_bottlenecks and analyze_trends return
\* an empty table.
C2_EmptyDataset ==
  (op \in ScalarOps \cup TableOps /\ Len(arg.rows) = 0)
    => /\ op \in ScalarOps => ret = Num(0)
       /\ op \in TableOps => ret = EmptyFrame

C2_Witness ==
  /\ Called("calculate_avg_handling_time")
  /\ Len(arg.rows) = 0
  /\ "processing_time" \in arg.cols
  /\ ret = Num(0)

TeamPresets == {"Brand Team", "Performance Team", "Social Media Team"}

\* C3: for the preset "All Teams" and for every preset name that is not one
\* of the known names, filter_data_by_team returns exactly the rows of the
\* input, in the same order.
C3_FilterIdentity ==
  (Called("filter_data_by_team") /\ preset \notin TeamPresets) => ret = arg

\* an unknown preset on a dataset from which every team preset drops a row
C3_Witness ==
  /\ Called("filter_data_by_team")
  /\ preset = "Unknown Team"
  /\ Len(arg.rows) = 2
  /\ arg.rows[1]["team_assignment"] = None
  /\ arg.rows[1]["product_category"] = None
  /\ ret = arg

\* the cell is a string in which the word w occurs, letter case ignored
HasWord(x, w) ==
  /\ x.k = "str"
  /\ \E i \in 0..(Len(x.v) - Len(w)) :
       \A j \in 1..Len(w) : LowerChar(x.v[i + j]) = LowerChar(w[j])

TeamAlone(p, t) ==
  CASE p = "Brand Team" -> HasWord(t, sBrand)
    [] p = "Performance Team" ->
         HasWord(t, sPerformance) \/ HasWord(t, sOperations)
    [] p = "Social Media Team" -> HasWord(t, sSocial) \/ HasWord(t, sMarketing)

CategoryAlone(p, c) ==
  CASE p = "Brand Team" -> HasWord(c, sPremium) \/ HasWord(c, sLuxury)
    [] p = "Performance Team" -> FALSE
    [] p = "Social Media Team" ->
         HasWord(c, sFeatured) \/ HasWord(c, sCampaign)

PresetKeeps(p, r) ==
  TeamAlone(p, r["team_assignment"]) \/ CategoryAlone(p, r["product_category"])

KeptRow(r) == \E j \in Index(ret) : ret.rows[j] = r

\* C4: with the presets "Brand Team", "Performance Team" and "Social Media
\* Team" filter_data_by_team keeps a row if and only if the preset's
\* predicate holds of it (case-insensitive substring tests on
\* team_assignment and product_category; "Performance Team" ignores
\* product_category); a row of team "Performance Team" and category
\* "Electronics" is excluded by "Brand Team".
C4_TeamPredicates ==
  (Called("filter_data_by_team") /\ preset \in TeamPresets)
    => /\ ret.cols = arg.cols
       /\ ret.rows = SelectSeq(arg.rows, LAMBDA r : PresetKeeps(preset, r))
       /\ preset = "Brand Team"
            => \A j \in Index(ret) :
                 ~ /\ ret.rows[j]["team_assignment"] = Str(sTeamPerformance)
                   /\ ret.rows[j]["product_category"] = Str(sElectronics)

\* "Brand Team" drops the Performance Team / Electronics row and keeps the
\* row whose category is "luxury Goods"
C4_Witness ==
  /\ Called("filter_data_by_team")
  /\ preset = "Brand Team"
  /\ Len(arg.rows) = 2
  /\ arg.rows[1]["team_assignment"] = Str(sTeamPerformance)
  /\ arg.rows[1]["product_category"] = Str(sElectronics)
  /\ arg.rows[2]["team_assignment"] = Str(sTeamOps)
  /\ arg.rows[2]["product_category"] = Str(sCatLuxury)
  /\ ret.rows = <<arg.rows[2]>>

\* C5: with a team preset, a missing team_assignment or product_category
\* never matches: a row with both missing is excluded, and a row with one of
\* them missing is kept exactly when the other field alone satisfies the
\* preset's predicate.
C5_MissingNeverMatches ==
  (Called("filter_data_by_team") /\ preset \in TeamPresets)
    => /\ IsFrame(ret)
       /\ \A i \in Index(arg) :
            LET r == arg.rows[i]
                t == r["team_assignment"]
                c == r["product_category"]
            IN  /\ (IsNull(t) /\ IsNull(c)) => ~KeptRow(r)
                /\ (IsNull(t) /\ ~IsNull(c))
                     => (KeptRow(r) <=> CategoryAlone(preset, c))
                /\ (~IsNull(t) /\ IsNull(c))
                     => (KeptRow(r) <=> TeamAlone(preset, t))

\* "Brand Team" keeps the row with no team and category Premium and drops
\* the row with neither field
C5_Witness ==
  /\ Called("filter_data_by_team")
  /\ preset = "Brand Team"
  /\ Len(arg.rows) = 2
  /\ arg.rows[1]["team_assignment"] = None
  /\ arg.rows[1]["product_category"] = Str(sPremium)
  /\ arg.rows[2]["team_assignment"] = None
  /\ arg.rows[2]["product_category"] = None
  /\ ret.rows = <<arg.rows[1]>>

\* the row was delivered, and strictly later than expected
DeliveredLate(r) ==
  LET a == ToDatetime(r["actual_delivery_date"])
      e == ToDatetime(r["expected_delivery_date"])
  IN  a.k = "ts" /\ e.k = "ts" /\ a.v > e.v

LateRows(d) == {i \in Index(d) : DeliveredLate(d.rows[i])}

\* C6: is_delayed is 1 exactly for the rows whose actual_delivery_date is
\* present and strictly later than expected_delivery_date and 0 for all
\* others (missing or unparseable actual date, delivery on the expected
\* date), in calculate_delay_percentage and in get_warehouse_performance;
\* delay_percentage is 100 * (number of such rows) / |D|.
C6_DelayFlagAndPercentage ==
  /\ ( /\ op \in {"calculate_delay_percentage", "get_warehouse_performance"}
       /\ ~IsEmpty(arg) )
       => \A i \in Index(arg) :
            df.rows[i]["is_delayed"] =
              IF DeliveredLate(arg.rows[i]) THEN Num(1) ELSE Num(0)
  /\ (Called("calculate_delay_percentage") /\ ~IsEmpty(arg))
       => ret = Rat(100 * Cardinality(LateRows(arg)), Len(arg.rows))

\* two rows, one delivered an hour late and one not delivered: 50
C6_Witness ==
  /\ Called("calculate_delay_percentage")
  /\ Len(arg.rows) = 2
  /\ arg.rows[1]["expected_delivery_date"] = Ts(48)
  /\ arg.rows[1]["actual_delivery_date"] = Ts(49)
  /\ arg.rows[2]["actual_delivery_date"] = None
  /\ ret = Rat(50, 1)

\* the stage of a processing time under left-inclusive bucket edges
LeftInclusiveStage(x) ==
  IF x.k # "num" \/ x.v < 0 THEN "none"
  ELSE IF x.v < 2 THEN "Rapid"
  ELSE IF x.v < 6 THEN "Normal"
  ELSE IF x.v < 12 THEN "Extended"
  ELSE IF x.v < 24 THEN "Delayed"
  ELSE "Critical"

\* C7: identify_bottlenecks assigns the stage by left-inclusive,
\* right-exclusive buckets: [0,2) Rapid, [2,6) Normal, [6,12) Extended,
\* [12,24) Delayed, [24,inf) Critical; a processing_time below 0 or missing
\* gets no stage.
C7_StageBuckets ==
  (Called("identify_bottlenecks") /\ ~IsEmpty(arg))
    => \A i \in Index(arg) :
         StageLabel(df.rows[i]["stage"]) =
           LeftInclusiveStage(ToNumeric(arg.rows[i]["processing_time"]))

\* the fulfilled flag of a row: the mapped is_fulfilled value when there is
\* one, otherwise order_status being delivered, completed or fulfilled
FulfilledWithFallback(d, r) ==
  IF "is_fulfilled" \in d.cols /\ MapFulfilled(r["is_fulfilled"]) # NaN
  THEN MapFulfilled(r["is_fulfilled"]) = Num(1)
  ELSE StatusFlag(r) = Num(1)

FulfilledRows(d, I) == {i \in I : FulfilledWithFallback(d, d.rows[i])}

RowsOfWarehouse(d, w) ==
  {i \in Index(d) :
     /\ d.rows[i]["warehouse_id"] = w["warehouse_id"]
     /\ d.rows[i]["warehouse_name"] = w["warehouse_name"]
     /\ d.rows[i]["warehouse_location"] = w["warehouse_location"]}

\* C8: fulfillment_rate is 100 * (number of fulfilled rows) / |D|, a row
\* being fulfilled by its is_fulfilled value under the exact mapping and,
\* whenever that value is unusable (column absent, value missing or not in
\* the mapping), by its order_status; in calculate_fulfillment_rate and in
\* the per-warehouse fulfillment_rate of get_warehouse_performance.
C8_FulfillmentFallback ==
  /\ (Called("calculate_fulfillment_rate") /\ ~IsEmpty(arg))
       => ret = Rat(100 * Cardinality(FulfilledRows(arg, Index(arg))),
                    Len(arg.rows))
  /\ (Called("get_warehouse_performance") /\ ~IsEmpty(arg))
       => /\ IsFrame(ret)
          /\ \A j \in Index(ret) :
               LET I == RowsOfWarehouse(arg, ret.rows[j])
               IN  ret.rows[j]["fulfillment_rate"] =
                     Rat(100 * Cardinality(FulfilledRows(arg, I)),
                         Cardinality(I))

\* the rows whose processing_time parses as a number
ParsedRows(d, I) ==
  {i \in I : ToNumeric(d.rows[i]["processing_time"]).k = "num"}

RECURSIVE TotalTime(_, _)
TotalTime(d, I) ==
  IF I = {} THEN 0
  ELSE LET i == CHOOSE j \in I : TRUE
       IN  ToNumeric(d.rows[i]["processing_time"]).v + TotalTime(d, I \ {i})

MeanOfPresent(d, I) ==
  IF ParsedRows(d, I) = {} THEN NaN
  ELSE Rat(TotalTime(d, ParsedRows(d, I)), Cardinality(ParsedRows(d, I)))

RowsOfDate(d, t) ==
  {i \in Index(d) : DateOf(ToDatetime(d.rows[i]["order_date"])) = t["date"]}

\* C9: calculate_avg_handling_time is the mean of processing_time over the
\* rows where it parses as a number (numeric strings included, missing and
\* unparseable values left out of numerator and denominator), and 0 when
\* there is no such row; avg_processing_time per warehouse and per date is
\* the same mean over the rows of the group.
C9_MeanOverPresentValues ==
  /\ Called("calculate_avg_handling_time")
       => ret = IF ParsedRows(arg, Index(arg)) = {} THEN Num(0)
                ELSE MeanOfPresent(arg, Index(arg))
  /\ (Called("get_warehouse_performance") /\ IsFrame(ret))
       => \A j \in Index(ret) :
            ret.rows[j]["avg_processing_time"] =
              MeanOfPresent(arg, RowsOfWarehouse(arg, ret.rows[j]))
  /\ (Called("analyze_trends") /\ IsFrame(ret))
       => \A j \in Index(ret) :
            ret.rows[j]["avg_processing_time"] =
              MeanOfPresent(arg, RowsOfDate(arg, ret.rows[j]))

\* processing times "7" and "abc": the mean is 7, not 3.5
C9_Witness ==
  /\ Called("calculate_avg_handling_time")
  /\ Len(arg.rows) = 2
  /\ arg.rows[1]["processing_time"] = Str(<<"7">>)
  /\ arg.rows[2]["processing_time"] = Str(sAbc)
  /\ ret = Rat(7, 1)

\* C10: get_warehouse_performance returns exactly one row per distinct
\* warehouse_id of the dataset, also when the rows of one warehouse_id carry
\* differing or missing warehouse_name / warehouse_location values.
C10_OneRowPerWarehouse ==
  ( /\ Called("get_warehouse_performance")
    /\ ~IsEmpty(arg)
    /\ "is_fulfilled" \in arg.cols )
    => /\ IsFrame(ret)
       /\ Len(ret.rows) = Cardinality(Uniques(arg, "warehouse_id"))

\* 10 * score = 4 * avg + 4 * delay - 2 * fulfil, over the common denominator
ScoreIsWeightedSum(score, avg, delay, fulfil) ==
  /\ IsNumber(score)
  /\ 10 * Numer(score) * Denom(avg) * Denom(delay) * Denom(fulfil)
       = Denom(score)
           * (4 * Numer(avg) * Denom(delay) * Denom(fulfil)
              + 4 * Numer(delay) * Denom(avg) * Denom(fulfil)
              - 2 * Numer(fulfil) * Denom(avg) * Denom(delay))

\* C11: every warehouse row's performance_score is
\* 0.4 * avg_processing_time + 0.4 * delay_rate - 0.2 * fulfillment_rate, the
\* two rates being percentages in 0..100 of the warehouse's orders; the
\* score is not clamped and is negative when fulfilment outweighs the rest.
C11_PerformanceScore ==
  (Called("get_warehouse_performance") /\ IsFrame(ret)) =>
    \A j \in 1..Len(ret.rows) :
      LET r == ret.rows[j]
          n == Len(arg.rows)
      IN  /\ InPercentRange(r.delay_rate)
          /\ InPercentRange(r.fulfillment_rate)
          /\ Numer(r.delay_rate) * n
               = 100 * Denom(r.delay_rate) * Cardinality(LateRows(arg))
          /\ Numer(r.fulfillment_rate) * n
               = 100 * Denom(r.fulfillment_rate)
                   * Cardinality({i \in 1..n :
                                   arg.rows[i]["is_fulfilled"] = Num(1)})
          /\ ScoreIsWeightedSum(r.performance_score, r.avg_processing_time,
                                r.delay_rate, r.fulfillment_rate)

\* ten hours, 20 % delayed, 90 % fulfilled: the score is -6
C11_Witness ==
  /\ Called("get_warehouse_performance")
  /\ IsFrame(ret)
  /\ \E j \in 1..Len(ret.rows) :
       /\ ret.rows[j].avg_processing_time = Rat(10, 1)
       /\ ret.rows[j].delay_rate = Rat(20, 1)
       /\ ret.rows[j].fulfillment_rate = Rat(90, 1)
       /\ ret.rows[j].performance_score = Rat(-6, 1)

InsightOps == {"operational_insights", "generate_recommendations"}

Emitted(msg) == \E i \in 1..Len(ret) : ret[i] = msg

IsWarning(msg) ==
  IF op = "operational_insights"
  THEN msg.kind = "warning"
  ELSE msg \in {DelayWarning, HandlingWarning, FulfillmentWarning}

\* C12: in both implementations of the insight engine the delay warning is
\* produced iff delay_percentage > 20, the handling-time warning iff
\* avg_handling_time > 24 and the fulfillment warning iff
\* fulfillment_rate < 85.
C12_WarningThresholds ==
  (op \in InsightOps /\ DOMAIN arg = MetricKeys) =>
    LET app == op = "operational_insights"
    IN  /\ (IF app THEN Emitted(AppDelayWarning) ELSE Emitted(DelayWarning))
             <=> Greater(arg["delay_percentage"], Num(20))
        /\ (IF app THEN Emitted(AppHandlingWarning)
            ELSE Emitted(HandlingWarning))
             <=> Greater(arg["avg_handling_time"], Num(24))
        /\ (IF app THEN Emitted(AppFulfillmentWarning)
            ELSE Emitted(FulfillmentWarning))
             <=> RatLess(arg["fulfillment_rate"], Num(85))

\* C13: in both implementations, for every preset (the default case
\* included) the threshold warnings are followed by exactly two
\* recommendations, which depend on the preset only.
C13_TwoRecommendations ==
  op \in InsightOps =>
    \E n \in 0..Len(ret) :
      /\ Len(ret) = n + 2
      /\ \A i \in 1..n : IsWarning(ret[i])
      /\ ~IsWarning(ret[n + 1])
      /\ ~IsWarning(ret[n + 2])
      /\ <<ret[n + 1], ret[n + 2]>>
           = (IF op = "operational_insights"
              THEN AppRecommendations(preset)
              ELSE TeamRecommendations(preset))

CoreOps == ScalarOps \cup TableOps

\* C14: after any sequence of calls of the core functions on a dataset the
\* caller's dataset has the columns and the cell values it had before.
C14_NoMutation == op \in CoreOps => df = fresh

\* C15: whatever ran before on the same dataset object, each KPI and the
\* warehouse table is the value the function returns on a fresh copy of the
\* dataset.
C15_SameAsOnFreshCopy ==
  /\ Called("calculate_avg_handling_time")
       => ret = calculate_avg_handling_time(fresh).ret
  /\ Called("calculate_delay_percentage")
       => ret = calculate_delay_percentage(fresh).ret
  /\ Called("calculate_fulfillment_rate")
       => ret = calculate_fulfillment_rate(fresh).ret
  /\ Called("get_warehouse_performance")
       => ret = get_warehouse_performance(fresh).ret

\* the fulfillment rate of a dataset whose is_fulfilled column an earlier
\* call has rewritten
C15_Witness ==
  /\ Called("calculate_fulfillment_rate")
  /\ "is_fulfilled" \in fresh.cols
  /\ Column(arg, "is_fulfilled") # Column(fresh, "is_fulfilled")
  /\ RatLess(Num(0), ret)

\* the calendar day an order_date cell falls on, -1 when it is no date
CalendarDay(x) ==
  LET t == ToDatetime(x)
  IN  IF t.k = "ts" THEN t.v \div 24 ELSE -1

RowsOfDay(d, day) ==
  {i \in Index(d) : CalendarDay(d.rows[i]["order_date"]) = day}

\* C17: analyze_trends returns one row per distinct calendar date of
\* order_date, in strictly ascending order of date, each with the mean
\* processing_time over the present values and the number of rows of that
\* date.
C17_TrendRows ==
  (Called("analyze_trends") /\ ~IsEmpty(arg)) =>
    /\ IsFrame(ret)
    /\ {ret.rows[j].date.v : j \in 1..Len(ret.rows)}
         = {CalendarDay(arg.rows[i]["order_date"]) : i \in Index(arg)} \ {-1}
    /\ \A j \in 1..Len(ret.rows) - 1 :
         ret.rows[j].date.v < ret.rows[j + 1].date.v
    /\ \A j \in 1..Len(ret.rows) :
         LET I == RowsOfDay(arg, ret.rows[j].date.v)
         IN  /\ ret.rows[j].date.k = "date"
             /\ ret.rows[j].avg_processing_time = MeanOfPresent(arg, I)
             /\ ret.rows[j].order_count = Num(Cardinality(I))

\* two orders placed at different times of the same day, merged into one row
C17_Witness ==
  /\ Called("analyze_trends")
  /\ Len(arg.rows) = 2
  /\ arg.rows[1]["order_date"] = Ts(23)
  /\ arg.rows[2]["order_date"] = Ts(0)
  /\ IsFrame(ret)
  /\ Len(ret.rows) = 1
  /\ ret.rows[1].order_count = Num(2)

RowsOfStage(r) ==
  {i \in Index(df) :
     /\ df.rows[i]["warehouse_id"] = r.warehouse_id
     /\ df.rows[i]["warehouse_name"] = r.warehouse_name
     /\ df.rows[i]["stage"] = r.stage}

\* C18: identify_bottlenecks has a row for a (warehouse_id, warehouse_name,
\* stage) combination only if some row of the dataset has that combination,
\* its count being the number of those rows; no row has count 0.
C18_NoEmptyCombination ==
  (Called("identify_bottlenecks") /\ ~IsEmpty(arg)) =>
    \A j \in 1..Len(ret.rows) :
      /\ RowsOfStage(ret.rows[j]) # {}
      /\ ret.rows[j].count = Num(Cardinality(RowsOfStage(ret.rows[j])))

Ran == op = "run" /\ run.date_valid

\* the database was asked in this run and gave no rows back
DbFailed == run.db_queried /\ ~(run.db.up /\ run.db.ok)

C19_SourcePrecedence ==
  Ran =>
    LET uploaded == ~IsNone(run.session.uploaded_data)
        flag == run.session.use_sample_data
    IN  /\ uploaded =>
             /\ run.data_source = "uploaded"
             /\ arg = run.session.uploaded_data
        /\ (~uploaded /\ flag) => run.data_source = "sample"
        /\ (~uploaded /\ ~flag) =>
             /\ run.db_queried
             /\ run.data_source = IF DbFailed THEN "sample" ELSE "database"
        /\ run.data_source = "sample" <=> ((flag /\ ~uploaded) \/ DbFailed)
        /\ run.data_source = "sample" => arg = get_sample_data
        /\ run.db_queried => (~uploaded /\ ~flag)

\* a run of a session that has both an upload and the sample flag
C19_Witness ==
  /\ Ran
  /\ ~IsNone(run.session.uploaded_data)
  /\ run.session.use_sample_data
  /\ run.data_source = "uploaded"

\* C20: a run on the uploaded dataset applies no filter and computes no KPI,
\* summary, insight or recommendation; KPIs are computed only on sample or
\* database data and only when the filtered dataset is not empty, otherwise
\* the run shows "No data available".
C20_UploadedNotAnalysed ==
  Ran =>
    /\ run.data_source = "uploaded" =>
         /\ run.filter_arg = NoValue
         /\ run.kpis = NoValue
         /\ run.warehouse_performance = NoValue
         /\ run.messages = <<>>
         /\ run.screen = "blank"
    /\ run.kpis # NoValue =>
         /\ run.data_source \in {"sample", "database"}
         /\ run.kpi_arg = filter_data_by_team(arg, preset)
         /\ ~IsEmpty(run.kpi_arg)
    /\ run.data_source \in {"sample", "database"} =>
         IF IsEmpty(filter_data_by_team(arg, preset))
         THEN run.screen = "no_data" /\ run.kpis = NoValue
                /\ run.messages = <<>>
         ELSE run.screen = "dashboard" /\ run.kpis # NoValue

\* a run on an uploaded sheet that has orders in it
C20_Witness ==
  /\ Ran
  /\ run.data_source = "uploaded"
  /\ ~IsEmpty(arg)
  /\ run.screen = "blank"

\* what one step does to the session, and the source a run with a date range
\* takes, told from the session as it was before the step
SessionStep ==
  LET uploaded == ~IsNone(session_state.uploaded_data)
  IN  /\ session_state.use_sample_data => session_state'.use_sample_data
      /\ uploaded => ~IsNone(session_state'.uploaded_data)
      /\ (op' = "run" /\ run'.date_valid) =>
           (run'.data_source = "uploaded" <=> uploaded)

\* C21: within a session use_sample_data never goes back from true to false
\* and uploaded_data never goes back from a dataset to null; once a file has
\* been uploaded every later run uses the uploaded source, and the run in
\* which the file is uploaded still uses the source selected before.
C21_FlagsOneWay == [][SessionStep]_vars

\* a run that read the database and in which a file was uploaded
C21_Witness ==
  /\ Ran
  /\ IsNone(run.session.uploaded_data)
  /\ ~IsNone(session_state.uploaded_data)
  /\ run.data_source = "database"

\* every row carries the same, complete warehouse key
SingleWarehouse(d) ==
  \A i \in Index(d) :
    /\ \A c \in {"warehouse_id", "warehouse_name", "warehouse_location"} :
         ~IsNull(d.rows[i][c]) /\ d.rows[i][c] = d.rows[1][c]

\* C22: on a non-empty dataset whose rows all belong to one warehouse the one
\* row of get_warehouse_performance has the values of the scalar KPIs:
\* avg_processing_time = calculate_avg_handling_time, delay_rate =
\* calculate_delay_percentage, fulfillment_rate = calculate_fulfillment_rate,
\* also when some is_fulfilled values are missing or unmapped.
C22_SummaryAgreesWithKPIs ==
  ( /\ Called("get_warehouse_performance")
    /\ ~IsEmpty(arg)
    /\ "is_fulfilled" \in arg.cols
    /\ SingleWarehouse(arg) )
    => /\ IsFrame(ret)
       /\ Len(ret.rows) = 1
       /\ ret.rows[1].avg_processing_time
            = calculate_avg_handling_time(arg).ret
       /\ ret.rows[1].delay_rate = calculate_delay_percentage(arg).ret
       /\ ret.rows[1].fulfillment_rate = calculate_fulfillment_rate(arg).ret

\* the sum of the order_count column of a summary table
RECURSIVE TotalCount(_)
TotalCount(rows) ==
  IF Len(rows) = 0 THEN 0
  ELSE Head(rows).order_count.v + TotalCount(Tail(rows))

\* C23: grouping loses no rows: on a non-empty dataset the order_count values
\* of get_warehouse_performance, and those of analyze_trends, sum to the
\* number of rows, also when rows have a missing warehouse_name or
\* warehouse_location or a missing or unparseable order_date.
C23_NoRowLost ==
  ( /\ op \in {"get_warehouse_performance", "analyze_trends"}
    /\ ~IsEmpty(arg)
    /\ IsFrame(ret) )
    => TotalCount(ret.rows) = Len(arg.rows)

====
